---- MODULE Spec2Model ----
(***************************************************************************)
(* HashMover (script.py): scan a source tree, select files by extension   *)
(* and copy or move them into a flat target directory, renaming them with *)
(* a content-hash prefix (Mode B, -P L with L # 0) or with a numeric      *)
(* suffix (Mode A, L = 0) when the name is taken.                         *)
(*                                                                         *)
(* File names and digests are sequences of one-character strings, so that *)
(* slicing, splitext and decimal rendering are computed as the code does. *)
(***************************************************************************)
EXTENDS Integers, Sequences, FiniteSets, TLC

VARIABLES
    fs,               \* directory -> (entry name -> content): the file system
    extension_given,  \* -E is on the command line (required, line 77)
    extension,        \* args.extension
    case_sensitive,   \* args.case_sensitive
    source_exists,    \* source_dir.is_dir() at line 92
    target,           \* the directory target_dir resolves to
    move,             \* args.move
    prefix_length,    \* args.prefix_length
    algorithm,        \* args.algorithm
    available,        \* build-dependent names hashlib.new accepts
    pc,               \* position of main()
    todo,             \* directories rglob has not listed yet
    cur,              \* directory whose snapshot is being iterated
    listing,          \* entries of the snapshot not yet yielded
    file,             \* file_path.name of the file being processed
    full_hash,        \* full_hash (line 113)
    prefix_len,       \* prefix_len (lines 115-125)
    filename,         \* new_filename / get_unique_path's filename
    split,            \* <<base, ext>> of get_unique_path (line 27)
    counter,          \* counter of get_unique_path (line 28)
    dest,             \* dest_path.name once the naming decision returned
    processed_files,  \* processed_files (line 101)
    placements,       \* history: <<content, destination>> of each placement
    last,             \* history: the latest placement
    failures,         \* history: per-file failures caught at line 137
    prefixProbes,     \* history: exists() probes of the prefix loop, this file
    suffixProbes,     \* history: exists() probes of get_unique_path, this file
    overwrites,       \* history: placements that wrote onto an existing entry
    extWrites         \* history: entries created by another writer

vars == <<fs, extension_given, extension, case_sensitive, source_exists,
          target, move, prefix_length, algorithm, available, pc, todo, cur,
          listing, file, full_hash, prefix_len, filename, split, counter,
          dest, processed_files, placements, last, failures, prefixProbes,
          suffixProbes, overwrites, extWrites>>

----------------------------------------------------------------------------
(* Bounds of the model *)

\* number of leading characters of a hexadecimal digest the model keeps
DigestLen == 2
\* largest |L| tried for -P
MaxPrefix == 2
\* largest number of entries the target directory holds before the run
MaxInitTarget == 1
\* largest number of injected I/O failures in one run
MaxFailures == 1
\* largest number of entries another writer creates in one run
MaxExtWrites == 1

----------------------------------------------------------------------------
(* Strings *)

Min(a, b) == IF a < b THEN a ELSE b
Max(a, b) == IF a > b THEN a ELSE b
\* line 114 without abs()
Abs_Signed(n) == n

\* abs(), line 114
Abs(n) == IF n < 0 THEN -n ELSE n

Digits == <<"0", "1", "2", "3", "4", "5", "6", "7", "8", "9">>

\* str(n) for n >= 0
RECURSIVE Str(_)
Str(n) == IF n < 10 THEN <<Digits[n + 1]>>
          ELSE Str(n \div 10) \o <<Digits[(n % 10) + 1]>>

\* an unsigned 32-bit value v is the pair <<v \div 2^16, v % 2^16>>
Word == 65536
Zero32 == <<0, 0>>

\* hash_val & 0xffffffff, line 49, with the mask 0xffff
Mask32_Low16(v) == <<0, v[2]>>

\* hash_val & 0xffffffff, line 49
Mask32(v) == <<v[1] % Word, v[2]>>

\* str() of an unsigned 32-bit value, by long division by 10
RECURSIVE Str32(_)
Str32(v) ==
    LET t == (v[1] % 10) * Word + v[2]
        q == <<v[1] \div 10, t \div 10>>
        d == <<Digits[(t % 10) + 1]>>
    IN  IF q = Zero32 THEN d ELSE Str32(q) \o d

\* s[:k]: a negative k counts from the end
Take(s, k) ==
    IF k >= 0 THEN SubSeq(s, 1, Min(k, Len(s)))
    ELSE SubSeq(s, 1, Max(0, Len(s) + k))

\* s.rfind('.') + 1, 0 when there is no dot
LastDot(s) ==
    LET dots == {i \in 1..Len(s) : s[i] = "."}
    IN  IF dots = {} THEN 0 ELSE CHOOSE i \in dots : \A j \in dots : j <= i

\* os.path.splitext: split at the last dot, unless only dots precede it
SplitExt(s) ==
    LET d == LastDot(s)
    IN  IF d = 0 \/ (\A j \in 1..(d - 1) : s[j] = ".")
        THEN <<s, <<>>>>
        ELSE <<SubSeq(s, 1, d - 1), SubSeq(s, d, Len(s))>>

\* PurePath.suffix: from the last dot, unless it is the first or last character
Suffix(s) ==
    LET d == LastDot(s)
    IN  IF 1 < d /\ d < Len(s) THEN SubSeq(s, d, Len(s)) ELSE <<>>

LowerCase == <<"a", "b", "c", "d", "e", "f", "g", "h", "i", "j", "k", "l", "m",
               "n", "o", "p", "q", "r", "s", "t", "u", "v", "w", "x", "y", "z">>
UpperCase == <<"A", "B", "C", "D", "E", "F", "G", "H", "I", "J", "K", "L", "M",
               "N", "O", "P", "Q", "R", "S", "T", "U", "V", "W", "X", "Y", "Z">>

\* the letters of `from` mapped to the letters at the same place in `to`
CaseMap(from, to) ==
    [c \in {from[i] : i \in 1..26} |->
        to[CHOOSE i \in 1..26 : from[i] = c]]
ToUpper == CaseMap(LowerCase, UpperCase)
ToLower == CaseMap(UpperCase, LowerCase)

\* str.upper() and str.lower(): a character that is no letter is kept
Upper(s) == [i \in 1..Len(s) |->
               IF s[i] \in DOMAIN ToUpper THEN ToUpper[s[i]] ELSE s[i]]
Lower(s) == [i \in 1..Len(s) |->
               IF s[i] \in DOMAIN ToLower THEN ToLower[s[i]] ELSE s[i]]

----------------------------------------------------------------------------
(* Files, contents and digests *)

Dirs == {"root", "s1", "s2", "ext"}
\* the source tree: root and its two subdirectories
Subdirs == {"s1", "s2"}
DirName == [d \in Subdirs |-> IF d = "s1" THEN <<"s", "1">> ELSE <<"s", "2">>]

Contents == {"c1", "c2", "c3"}

\* algorithm names, as the help text of -A spells them, and two others
CRC32 == <<"C", "R", "C", "3", "2">>
MD2 == <<"M", "D", "2">>
MD4 == <<"M", "D", "4">>
MD5 == <<"M", "D", "5">>
SHA1 == <<"S", "H", "A", "1">>
SHA256 == <<"S", "H", "A", "2", "5", "6">>
SHA384 == <<"S", "H", "A", "3", "8", "4">>
SHA512 == <<"S", "H", "A", "5", "1", "2">>
XYZ == <<"X", "Y", "Z">>

\* the values of -A in a run
Algorithms == {MD5, CRC32, XYZ}

\* names hashlib.new accepts in every build (algorithms_guaranteed), and
\* names it accepts only when the OpenSSL of the build provides them
HashlibGuaranteed == {Lower(a) : a \in {MD5, SHA1, SHA256, SHA384, SHA512}}
HashlibOptional == {Lower(a) : a \in {MD2, MD4}}

\* line 99: the configured extension, made to start with a dot
ext ==
    IF extension # <<>> /\ extension[1] = "." THEN extension
    ELSE <<".">> \o extension
\* the one file name the source tree uses
AName == <<"a", ".", "t">>

\* hexdigest(): c1 and c2 share their first character, c3 collides with c1
HexTable(c) ==
    CASE c = "c1" -> <<"a", "b", "0", "1">>
      [] c = "c2" -> <<"a", "c", "0", "2">>
      [] c = "c3" -> <<"a", "b", "0", "1">>
      [] OTHER    -> <<"e", "e", "e", "e">>

\* what f.read(4096) returns, call after call, until b'': c1 and c3 are
\* empty files; block A is 4096 bytes 'a', a and b the single bytes 'a' and
\* 'b', the others the four bytes 5632c2db (k12), 99131d00 (k7), ffffffff
\* (kmax), 4e85ec36 (k31) and 6caa8c18 (k16)
Blocks(c) ==
    CASE c \in {"c1", "c3"} -> <<>>
      [] c = "c2" -> <<"k12">>
      [] c = "c4" -> <<"a">>
      [] c = "c5" -> <<"A", "b">>
      [] c = "c6" -> <<"kmax">>
      [] c = "c7" -> <<"k31">>
      [] c = "c8" -> <<"A", "A", "a">>
      [] c = "c9" -> <<"k16">>
      [] OTHER    -> <<"k7">>

\* zlib.crc32(chunk, hash_val) on the blocks above: an unsigned value
zlib_crc32(chunk, hash_val) ==
    CASE chunk = "k12" /\ hash_val = Zero32 -> <<0, 12>>
      [] chunk = "k7" /\ hash_val = Zero32 -> <<0, 7>>
      [] chunk = "k16" /\ hash_val = Zero32 -> <<1, 0>>
      [] chunk = "k31" /\ hash_val = Zero32 -> <<32768, 0>>
      [] chunk = "kmax" /\ hash_val = Zero32 -> <<65535, 65535>>
      [] chunk = "a" /\ hash_val = Zero32 -> <<59575, 48707>>
      [] chunk = "A" /\ hash_val = Zero32 -> <<40089, 56435>>
      [] chunk = "b" /\ hash_val = <<40089, 56435>> -> <<47150, 22179>>
      [] chunk = "A" /\ hash_val = <<40089, 56435>> -> <<3439, 26325>>
      [] chunk = "a" /\ hash_val = <<3439, 26325>> -> <<7683, 63358>>

\* lines 46-48: the loop over the blocks, from the accumulator hash_val on
RECURSIVE CrcFold(_, _)
CrcFold(blocks, hash_val) ==
    IF blocks = <<>> THEN hash_val
    ELSE CrcFold(Tail(blocks), zlib_crc32(Head(blocks), hash_val))

\* lines 45-48: hash_val after the last block
Crc(c) == CrcFold(Blocks(c), Zero32)

\* lines 43-44 and 51-54: the name is CRC32 in any case, or hashlib.new
\* accepts its lower-case form
Supported(alg) ==
    \/ Upper(alg) = CRC32
    \/ Lower(alg) \in HashlibGuaranteed \cup available

\* compute_file_hash for a supported algorithm
compute_file_hash(c, alg) ==
    IF Upper(alg) = CRC32 THEN Str32(Mask32(Crc(c)))
    ELSE Take(HexTable(c), DigestLen)

\* dest_path.exists(): files and the subdirectories of root are entries
Exists(d, n) ==
    n \in DOMAIN fs[d] \cup (IF d = "root" THEN {DirName[s] : s \in Subdirs}
                                            ELSE {})

\* file_path.is_file()
is_file(d, n) == n \in DOMAIN fs[d]

\* lines 106-109
match_ext(n) ==
    IF case_sensitive THEN Suffix(n) = ext
    ELSE Lower(Suffix(n)) = Lower(ext)

\* what scandir returns for a directory
Entries(d) ==
    DOMAIN fs[d] \cup (IF d = "root" THEN {DirName[s] : s \in Subdirs} ELSE {})

\* f"{prefix}_{file_path.name}", lines 117-118
PrefixedName(h, p, n) == Take(h, p) \o <<"_">> \o n

\* line 34 without the underscore
SuffixedName_NoSep(sp, k) == sp[1] \o Str(k) \o sp[2]

\* f"{base}_{counter}{ext}", line 34
SuffixedName(sp, k) == sp[1] \o <<"_">> \o Str(k) \o sp[2]

\* line 122 with > for >=
PrefixExhausted_Strict(p, h) == p > Len(h)

\* line 122 giving up one character early
PrefixExhausted_Early(p, h) == p + 1 >= Len(h)

\* line 122
PrefixExhausted(p, h) == p >= Len(h)

----------------------------------------------------------------------------
(* The naming decision as a function of the target directory's entries E *)

\* get_unique_path, lines 30-35, from the name fname and counter k on
RECURSIVE UniqueFrom(_, _, _, _)
UniqueFrom(E, fname, sp, k) ==
    IF fname \notin E THEN fname
    ELSE UniqueFrom(E, SuffixedName(sp, k), sp, k + 1)

\* get_unique_path, lines 21-35
get_unique_path(E, fname) == UniqueFrom(E, fname, SplitExt(fname), 1)

\* lines 116-125, from prefix length p on
RECURSIVE PrefixFrom(_, _, _, _)
PrefixFrom(E, h, n, p) ==
    LET new_filename == PrefixedName(h, p, n)
    IN  IF new_filename \notin E THEN new_filename
        ELSE IF PrefixExhausted(p, h) THEN get_unique_path(E, new_filename)
        ELSE PrefixFrom(E, h, n, p + 1)

\* lines 112-128: the destination for -P L, digest h and file name n
name_destination(L, h, n, E) ==
    IF L # 0 THEN PrefixFrom(E, h, n, Abs(L))
    ELSE get_unique_path(E, n)

----------------------------------------------------------------------------
(* Initial states *)

\* names the target directory may hold before the run, for algorithm a
InitTargetNames(a) ==
    {AName, SuffixedName(SplitExt(AName), 1)}
    \cup (IF Supported(a)
          THEN {PrefixedName(compute_file_hash("c1", a), p, AName) :
                  p \in 1..DigestLen}
          ELSE {})

\* contents the file a.t of a source directory may have before the run
InitContents(d) ==
    CASE d = "root" -> {"c1"}
      [] d = "s1"   -> {"c1", "c2", "c3"}
      [] d = "s2"   -> {"none", "c1"}
      [] OTHER      -> {"none"}

\* where target_dir may lie: outside the source tree, or inside it
Targets == {"ext", "s2"}

\* the values of -P: 0 (Mode A), 1..MaxPrefix, and a negative one
PrefixLengths == {-1} \cup 0..MaxPrefix

Fun(S, c) == [n \in S |-> c]
EmptyDir == Fun({}, "c0")

\* the value of last before the first placement
NoPlacement == [name |-> <<>>, content |-> "none", dest |-> <<>>,
                plen |-> 0, suffix |-> 0]

Init ==
    /\ extension_given \in BOOLEAN
    /\ extension = <<".", "t">>
    /\ case_sensitive = FALSE
    /\ source_exists \in BOOLEAN
    /\ target \in Targets
    /\ move \in BOOLEAN
    /\ prefix_length \in PrefixLengths
    /\ algorithm \in Algorithms
    \* Mode A never reads the algorithm: one good and one bad name suffice
    /\ prefix_length = 0 => algorithm \in {MD5, XYZ}
    \* no value of -A in a run is a build-dependent name
    /\ available = {}
    /\ IF extension_given /\ source_exists
       THEN \E T \in SUBSET InitTargetNames(algorithm),
               f \in [Dirs -> Contents \cup {"none"}] :
              /\ Cardinality(T) <= MaxInitTarget
              /\ \A d \in Dirs : f[d] \in InitContents(d)
              /\ fs = [d \in Dirs |->
                         IF d = target THEN Fun(T, "c0")
                         ELSE IF f[d] = "none" THEN EmptyDir
                         ELSE Fun({AName}, f[d])]
       \* a run without -E stops at line 87 and a run without a source
       \* directory at line 94: one run for each combination
       ELSE /\ target = "ext" /\ ~move /\ prefix_length = 0
            /\ algorithm = MD5
            /\ fs = [d \in Dirs |->
                       IF source_exists /\ d \in {"root", "s1"}
                       THEN Fun({AName}, "c1") ELSE EmptyDir]
    /\ pc = "start"
    /\ todo = {}
    /\ cur = "root"
    /\ listing = {}
    /\ file = <<>>
    /\ full_hash = <<>>
    /\ prefix_len = 0
    /\ filename = <<>>
    /\ split = <<<<>>, <<>>>>
    /\ counter = 0
    /\ dest = <<>>
    /\ processed_files = 0
    /\ placements = {}
    /\ last = NoPlacement
    /\ failures = 0
    /\ prefixProbes = 0
    /\ suffixProbes = 0
    /\ overwrites = 0
    /\ extWrites = 0

----------------------------------------------------------------------------
(* main(): one action per step of the traversal loop *)

config == <<extension_given, extension, case_sensitive, source_exists,
            target, move, prefix_length, algorithm, available>>
naming == <<file, full_hash, prefix_len, filename, split, counter, dest,
            prefixProbes, suffixProbes>>
history == <<processed_files, placements, last, failures, overwrites,
             extWrites>>

\* main() entering the loop whatever the arguments and the source are
Start_NoCheck ==
    /\ pc = "start"
    /\ pc' = "scan"
    /\ todo' = {"root"}
    /\ UNCHANGED <<fs, config, cur, listing, naming, history>>

\* lines 87-96: parse_args exits when -E is missing, and a missing source
\* directory ends the run before the loop
Start ==
    /\ pc = "start"
    /\ IF extension_given /\ source_exists
       THEN /\ pc' = "scan"
            /\ todo' = {"root"}
       ELSE /\ pc' = "exit"
            /\ todo' = {}
    /\ UNCHANGED <<fs, config, cur, listing, naming, history>>

\* line 103, rglob: a directory is listed, as a snapshot, when the generator
\* reaches it: root first, then its subdirectories in scandir order
ListDir ==
    /\ pc = "scan"
    /\ listing = {}
    /\ \E d \in todo :
         /\ cur' = d
         /\ listing' = Entries(d)
         /\ todo' = IF d = "root" THEN Subdirs ELSE todo \ {d}
    /\ UNCHANGED <<fs, config, pc, naming, history>>

\* lines 104-110: an entry that is not a regular file, or does not match
SkipEntry ==
    /\ pc = "scan"
    /\ \E n \in listing :
         /\ ~(is_file(cur, n) /\ match_ext(n))
         /\ listing' = listing \ {n}
    /\ UNCHANGED <<fs, config, pc, todo, cur, naming, history>>

\* the locals of one loop iteration are dead once the iteration ends: the
\* next file assigns each of them before reading it
Forget ==
    /\ file' = <<>>
    /\ full_hash' = <<>>
    /\ prefix_len' = 0
    /\ filename' = <<>>
    /\ split' = <<<<>>, <<>>>>
    /\ counter' = 0
    /\ dest' = <<>>
    /\ prefixProbes' = 0
    /\ suffixProbes' = 0

\* get_unique_path with the counter starting at 0
EnterUnique_FromZero(n) ==
    /\ filename' = n
    /\ split' = SplitExt(n)
    /\ counter' = 0

\* get_unique_path, lines 26-28: the state before its first probe
EnterUnique(n) ==
    /\ filename' = n
    /\ split' = SplitExt(n)
    /\ counter' = 1

\* line 112 computing the digest whatever the prefix length is
SelectFile_AlwaysHashes ==
    /\ pc = "scan"
    /\ \E n \in listing :
         /\ is_file(cur, n) /\ match_ext(n)
         /\ listing' = listing \ {n}
         /\ file' = n
         /\ pc' = "hash"
    /\ UNCHANGED <<fs, config, todo, cur, filename, split, counter,
                   full_hash, prefix_len, dest, prefixProbes, suffixProbes,
                   history>>

\* lines 104-112 and 126-128: a matching file starts its naming decision
SelectFile ==
    /\ pc = "scan"
    /\ \E n \in listing :
         /\ is_file(cur, n) /\ match_ext(n)
         /\ listing' = listing \ {n}
         /\ file' = n
         /\ IF prefix_length # 0
            THEN /\ pc' = "hash"
                 /\ UNCHANGED <<filename, split, counter>>
            ELSE /\ pc' = "suffix"
                 /\ EnterUnique(n)
    /\ UNCHANGED <<fs, config, todo, cur, full_hash, prefix_len, dest,
                   prefixProbes, suffixProbes, history>>

\* lines 113-115: the digest is computed, the prefix length starts at |L|
Hash ==
    /\ pc = "hash"
    /\ Supported(algorithm)
    /\ full_hash' = compute_file_hash(fs[cur][file], algorithm)
    /\ prefix_len' = Abs(prefix_length)
    /\ pc' = "probe"
    /\ UNCHANGED <<fs, config, todo, cur, listing, file, filename, split,
                   counter, dest, prefixProbes, suffixProbes, history>>

\* lines 116-125: one iteration of the prefix loop
Probe ==
    /\ pc = "probe"
    /\ LET n == PrefixedName(full_hash, prefix_len, file)
       IN  /\ prefixProbes' = prefixProbes + 1
           /\ IF ~Exists(target, n)
              THEN /\ filename' = n
                   /\ dest' = n
                   /\ pc' = "place"
                   /\ UNCHANGED <<prefix_len, split, counter>>
              ELSE IF PrefixExhausted(prefix_len, full_hash)
              THEN /\ EnterUnique(n)
                   /\ pc' = "suffix"
                   /\ UNCHANGED <<prefix_len, dest>>
              ELSE /\ filename' = n
                   /\ prefix_len' = prefix_len + 1
                   /\ UNCHANGED <<pc, split, counter, dest>>
    /\ UNCHANGED <<fs, config, todo, cur, listing, file, full_hash,
                   suffixProbes, history>>

\* get_unique_path with an if for the while: the renamed path is returned
\* without a second existence check
SuffixProbe_NoRecheck ==
    /\ pc = "suffix"
    /\ suffixProbes' = suffixProbes + 1
    /\ IF ~Exists(target, filename)
       THEN /\ dest' = filename
            /\ UNCHANGED <<filename, counter>>
       ELSE /\ filename' = SuffixedName(split, counter)
            /\ dest' = SuffixedName(split, counter)
            /\ counter' = counter + 1
    /\ pc' = "place"
    /\ UNCHANGED <<fs, config, todo, cur, listing, file, full_hash,
                   prefix_len, split, prefixProbes, history>>

\* get_unique_path reserving the free name by creating an empty entry
SuffixProbe_Reserves ==
    /\ pc = "suffix"
    /\ suffixProbes' = suffixProbes + 1
    /\ IF ~Exists(target, filename)
       THEN /\ dest' = filename
            /\ pc' = "place"
            /\ fs' = [fs EXCEPT ![target] = [m \in DOMAIN fs[target]
                          \cup {filename} |-> IF m = filename THEN "partial"
                                              ELSE fs[target][m]]]
            /\ UNCHANGED <<filename, counter>>
       ELSE /\ filename' = SuffixedName(split, counter)
            /\ counter' = counter + 1
            /\ UNCHANGED <<fs, pc, dest>>
    /\ UNCHANGED <<config, todo, cur, listing, file, full_hash,
                   prefix_len, split, prefixProbes, history>>

\* get_unique_path, lines 30-35: one iteration of the suffix loop
SuffixProbe ==
    /\ pc = "suffix"
    /\ suffixProbes' = suffixProbes + 1
    /\ IF ~Exists(target, filename)
       THEN /\ dest' = filename
            /\ pc' = "place"
            /\ UNCHANGED <<filename, counter>>
       ELSE /\ filename' = SuffixedName(split, counter)
            /\ counter' = counter + 1
            /\ UNCHANGED <<pc, dest>>
    /\ UNCHANGED <<fs, config, todo, cur, listing, file, full_hash,
                   prefix_len, split, prefixProbes, history>>

\* the target directory after shutil.copy2 / shutil.move wrote dest
Written(d, n, c) ==
    [m \in DOMAIN fs[d] \cup {n} |-> IF m = n THEN c ELSE fs[d][m]]

\* a directory without the entry n
Removed(f, n) == [m \in DOMAIN f \ {n} |-> f[m]]

\* lines 130-136: the placement succeeds
Place ==
    /\ pc = "place"
    /\ is_file(cur, file)
    /\ LET c == fs[cur][file]
           copied == [fs EXCEPT ![target] = Written(target, dest, c)]
       IN  /\ fs' = IF move
                    THEN [copied EXCEPT ![cur] = Removed(copied[cur], file)]
                    ELSE copied
           /\ placements' = placements \cup {<<c, dest>>}
           /\ last' = [name |-> file, content |-> c, dest |-> dest,
                       plen |-> Len(Take(full_hash, prefix_len)),
                       suffix |-> IF counter > 1 THEN counter - 1 ELSE 0]
    /\ overwrites' = IF dest \in Entries(target) THEN overwrites + 1
                     ELSE overwrites
    /\ processed_files' = processed_files + 1
    /\ pc' = "scan"
    /\ Forget
    /\ UNCHANGED <<config, todo, cur, listing, failures, extWrites>>

\* the try of line 111 around the whole loop: an exception ends the traversal
Caught_EndsLoop ==
    /\ failures' = failures + 1
    /\ pc' = "done"
    /\ Forget
    /\ UNCHANGED <<config, todo, cur, listing, processed_files, placements,
                   last, overwrites, extWrites>>

\* the except clause counting the failed file as processed
Caught_Counts ==
    /\ failures' = failures + 1
    /\ processed_files' = processed_files + 1
    /\ pc' = "scan"
    /\ Forget
    /\ UNCHANGED <<config, todo, cur, listing, placements, last, overwrites,
                   extWrites>>

\* lines 137-138: the exception of this file is caught and logged
Caught ==
    /\ failures' = failures + 1
    /\ pc' = "scan"
    /\ Forget
    /\ UNCHANGED <<config, todo, cur, listing, processed_files, placements,
                   last, overwrites, extWrites>>

\* lines 52-54: hashlib.new rejects the algorithm name
Unsupported ==
    /\ pc = "hash"
    /\ ~Supported(algorithm)
    /\ Caught
    /\ UNCHANGED fs

\* lines 46 and 55: the file cannot be opened or read
HashFail ==
    /\ pc = "hash"
    /\ Supported(algorithm)
    /\ failures < MaxFailures
    /\ Caught
    /\ UNCHANGED fs

\* lines 32 and 120: the existence query raises
NameFail ==
    /\ pc \in {"probe", "suffix"}
    /\ failures < MaxFailures
    /\ Caught
    /\ UNCHANGED fs

\* lines 131-133: the copy or move raises, possibly after creating dest
PlaceFail ==
    /\ pc = "place"
    /\ failures < MaxFailures
    /\ \/ UNCHANGED fs
       \/ /\ ~move
          /\ fs' = [fs EXCEPT ![target] = Written(target, dest, "partial")]
    /\ Caught

\* line 140: the traversal is exhausted, the count is reported
Finish ==
    /\ pc = "scan"
    /\ listing = {}
    /\ todo = {}
    /\ pc' = "done"
    /\ UNCHANGED <<fs, config, todo, cur, listing, naming, history>>

\* the steps of a run whose file system calls all succeed
Steps ==
    \/ Start
    \/ ListDir
    \/ SkipEntry
    \/ SelectFile
    \/ Hash
    \/ Unsupported
    \/ Probe
    \/ SuffixProbe
    \/ Place
    \/ Finish

Next ==
    \/ Steps
    \/ HashFail
    \/ NameFail
    \/ PlaceFail

Spec == Init /\ [][Next]_vars

----------------------------------------------------------------------------
(* A second writer on the target directory *)

\* another process creates the chosen entry after the existence check of
\* line 32 or 120 and before the placement of lines 130-133
ExternalWrite ==
    /\ pc = "place"
    /\ extWrites < MaxExtWrites
    /\ dest \notin Entries(target)
    /\ fs' = [fs EXCEPT ![target] = Written(target, dest, "cx")]
    /\ extWrites' = extWrites + 1
    /\ UNCHANGED <<config, pc, todo, cur, listing, naming, processed_files,
                   placements, last, failures, overwrites>>

\* the race needs no failing call: the steps that succeed, and the writer
NextRace ==
    \/ Steps
    \/ ExternalWrite

SpecRace == Init /\ [][NextRace]_vars

----------------------------------------------------------------------------
(* The fingerprinter on its own: compute_file_hash for any value of -A *)

\* contents of the fingerprinted file: those of a run, and others of one
\* to three blocks
DigestContents == Contents \cup {"c4", "c5", "c6", "c7", "c8", "c9"}

\* values of -A: the names of the help text, other spellings of them, names
\* hashlib knows beyond the help text, and unknown names
DigestAlgorithms ==
    {CRC32, MD2, MD4, MD5, SHA1, SHA256, SHA384, SHA512, XYZ}
    \cup {Lower(a) : a \in {CRC32, MD4, MD5, SHA1, SHA256, XYZ}}
    \cup {<<"C", "r", "c", "3", "2">>, <<"M", "d", "5">>, <<"M", "D">>}

\* main() at line 113 for the file a.t of the source directory
InitDigest ==
    /\ extension_given = TRUE
    /\ extension = <<".", "t">>
    /\ case_sensitive = FALSE
    /\ source_exists = TRUE
    /\ target = "ext"
    /\ move \in BOOLEAN
    /\ prefix_length \in PrefixLengths \ {0}
    /\ algorithm \in DigestAlgorithms
    /\ available \in SUBSET HashlibOptional
    /\ \E c \in DigestContents :
         fs = [d \in Dirs |-> IF d = "root" THEN Fun({AName}, c)
                               ELSE EmptyDir]
    /\ pc = "hash"
    /\ todo = Subdirs
    /\ cur = "root"
    /\ listing = {DirName[d] : d \in Subdirs}
    /\ file = AName
    /\ full_hash = <<>>
    /\ prefix_len = 0
    /\ filename = <<>>
    /\ split = <<<<>>, <<>>>>
    /\ counter = 0
    /\ dest = <<>>
    /\ processed_files = 0
    /\ placements = {}
    /\ last = NoPlacement
    /\ failures = 0
    /\ prefixProbes = 0
    /\ suffixProbes = 0
    /\ overwrites = 0
    /\ extWrites = 0

\* the call returns a digest, or raises the error of line 54
NextDigest ==
    \/ Hash
    \/ Unsupported

SpecDigest == InitDigest /\ [][NextDigest]_vars

----------------------------------------------------------------------------
(* The selection on its own: lines 104-110 for any value of -E and -C *)

\* names of the file the source directory holds
SelectNames ==
    {<<"a", ".", "t">>, <<"a", ".", "T">>, <<"a", ".", "t", ".", "g">>,
     <<"a", ".", "T", ".", "G">>, <<"a", ".", "g">>, <<".", "t">>,
     <<"a", ".", ".", "t">>, <<"a", "t">>, <<"a", ".">>}

\* values of -E: with and without the dot, in both cases, with two dots
SelectExtensions ==
    {<<".", "t">>, <<"t">>, <<".", "T">>, <<"T">>, <<".", "g">>,
     <<".", "t", ".", "g">>, <<"t", ".", "g">>, <<".", "T", ".", "G">>}

\* main() in the loop of line 103, root listed, before its first entry
InitSelect ==
    /\ extension_given = TRUE
    /\ extension \in SelectExtensions
    /\ case_sensitive \in BOOLEAN
    /\ source_exists = TRUE
    /\ target = "ext"
    /\ move = FALSE
    /\ prefix_length = 0
    /\ algorithm = MD5
    /\ available = {}
    /\ \E n \in SelectNames :
         fs = [d \in Dirs |-> IF d = "root" THEN Fun({n}, "c1")
                               ELSE EmptyDir]
    /\ pc = "scan"
    /\ todo = Subdirs
    /\ cur = "root"
    /\ listing = Entries("root")
    /\ file = <<>>
    /\ full_hash = <<>>
    /\ prefix_len = 0
    /\ filename = <<>>
    /\ split = <<<<>>, <<>>>>
    /\ counter = 0
    /\ dest = <<>>
    /\ processed_files = 0
    /\ placements = {}
    /\ last = NoPlacement
    /\ failures = 0
    /\ prefixProbes = 0
    /\ suffixProbes = 0
    /\ overwrites = 0
    /\ extWrites = 0

\* an entry of the listing is skipped, or selected for relocation
NextSelect ==
    \/ SkipEntry
    \/ SelectFile

SpecSelect == InitSelect /\ [][NextSelect]_vars

----------------------------------------------------------------------------
(* Properties of the naming decision *)

\* the names the target directory holds
TargetNames == Entries(target)

\* <digest[0:p]>_<original filename> for the file being named
Pfx(p) == SubSeq(full_hash, 1, p) \o <<"_">> \o file

\* <name with _<n> between stem and extension>
Sfx(stem, n, e) == stem \o <<"_">> \o Str(n) \o e

\* the naming decision of the current file has returned, in Mode A / Mode B
Decided == pc = "place"
DecidedA == Decided /\ prefix_length = 0
DecidedB == Decided /\ prefix_length # 0

\* C1: with no other writer, the destination returned by the naming decision
\* (Mode A or Mode B) is not the name of an entry of the target directory.
C1_DestinationUnused == Decided => dest \notin TargetNames

\* a Mode B decision that fell back to the numeric suffix has returned
C1_Witness == DecidedB /\ counter > 1 /\ Cardinality(TargetNames) >= 2

\* C2: in Mode B two placed files with distinct content never have the same
\* destination path.
C2_DistinctContentDistinctDest ==
    prefix_length # 0 =>
        \A x, y \in placements : x[1] # y[1] => x[2] # y[2]

\* the file whose destination was just decided has the name and the content
\* of the file placed right before it
Twins ==
    /\ Decided
    /\ last.name = file
    /\ last.content = fs[cur][file]

\* C3 as stated: the second of two identical files processed in sequence
\* gets a destination different from the first's, and in Mode B it gets it
\* from the numeric suffix after every prefix length is exhausted.
C3_SecondUsesSuffix ==
    Twins =>
        /\ dest # last.dest
        /\ prefix_length # 0 => counter > 1

\* C3 amended: the second destination differs from the first; in Mode B it
\* is either a longer digest prefix than the first's or the numeric suffix.
C3_SecondDiffers ==
    Twins =>
        /\ dest # last.dest
        /\ prefix_length # 0 =>
              \/ counter > 1
              \/ /\ last.suffix = 0
                 /\ Len(Take(full_hash, prefix_len)) > last.plen

\* in Mode B the second twin is named with a longer prefix and no suffix
C3_Witness ==
    /\ Twins
    /\ prefix_length # 0
    /\ counter = 0
    /\ Len(Take(full_hash, prefix_len)) > last.plen

\* a Mode B decision is between its first probe and the placement
InModeB == prefix_length # 0 /\ pc \in {"probe", "suffix", "place"}

\* C4 as stated: the tracked prefix length is in [1, len(digest)] at every
\* probe, also for a digest shorter than |L|.
C4_PrefixLenWithinDigest ==
    InModeB => prefix_len >= 1 /\ prefix_len <= Len(full_hash)

\* C4 amended: p starts at |L| and never grows past len(digest), so that
\* 1 <= p <= max(|L|, len(digest)); the prefix used, digest[0:p], has
\* between 1 and len(digest) characters.
C4_PrefixLenBounded ==
    InModeB =>
        /\ prefix_len >= 1
        /\ prefix_len >= Abs(prefix_length)
        /\ prefix_len <= Max(Abs(prefix_length), Len(full_hash))
        /\ Len(Take(full_hash, prefix_len)) \in 1..Len(full_hash)

\* a probe with a digest shorter than |L|
C4_Witness == pc = "probe" /\ prefix_len > Len(full_hash)

\* C5: in Mode B, when some prefix length p in |L|..len(digest) gives an
\* unused name, the destination is that name for the smallest such p.
C5_ShortestFreePrefix ==
    DecidedB =>
        LET free == {p \in Abs(prefix_length)..Len(full_hash) :
                        Pfx(p) \notin TargetNames}
        IN  free # {} =>
                \E p \in free : /\ \A q \in free : p <= q
                                /\ dest = Pfx(p)

\* a decision that had to lengthen the prefix has returned
C5_Witness ==
    /\ DecidedB
    /\ prefixProbes >= 2
    /\ dest = Pfx(Abs(prefix_length) + prefixProbes - 1)

\* every name the prefix loop probes for the current file is taken
AllPrefixesTaken ==
    \A p \in Min(Abs(prefix_length), Len(full_hash))..Len(full_hash) :
        Pfx(p) \in TargetNames

\* dest is stem_n ext for the smallest n >= 1 whose name is unused
SmallestSuffix(stem, e) ==
    \E n \in 1..(Cardinality(TargetNames) + 1) :
        /\ dest = Sfx(stem, n, e)
        /\ \A m \in 1..(n - 1) : Sfx(stem, m, e) \in TargetNames

\* C6: in Mode B, when the prefixed name is taken for every probed prefix
\* length up to the full digest, the destination is
\* <full digest>_<stem>_<n><ext> for the smallest n >= 1 with an unused name.
C6_FallbackSuffix ==
    (DecidedB /\ AllPrefixesTaken) =>
        SmallestSuffix(full_hash \o <<"_">> \o SplitExt(file)[1],
                       SplitExt(file)[2])

\* a fallback that had to skip the suffix 1 has returned
C6_Witness == DecidedB /\ AllPrefixesTaken /\ counter > 2

\* the target is outside the source tree, was empty when the run began and
\* holds the k files the run placed, and another a.t was just named
ThirdOfThree(k) ==
    /\ DecidedA
    /\ target = "ext"
    /\ processed_files = k
    /\ Cardinality(TargetNames) = k
    /\ file = <<"a", ".", "t">>

\* C7: in Mode A the destination is the candidate name when it is unused,
\* else <stem>_<n><ext> for the smallest n >= 1 with an unused name; three
\* files a.t placed into an empty target get a.t, a_1.t, a_2.t.
C7_ModeA ==
    /\ DecidedA =>
          IF file \notin TargetNames THEN dest = file
          ELSE SmallestSuffix(SplitExt(file)[1], SplitExt(file)[2])
    /\ ThirdOfThree(0) => dest = <<"a", ".", "t">>
    /\ ThirdOfThree(1) => dest = <<"a", "_", "1", ".", "t">>
    /\ ThirdOfThree(2) => dest = <<"a", "_", "2", ".", "t">>

\* the third a.t of a Mode A run into an empty target was named a_2.t
C7_Witness == ThirdOfThree(2) /\ dest = <<"a", "_", "2", ".", "t">>

\* the digest of the current file is known
Hashed == prefix_length # 0 /\ pc \in {"probe", "suffix", "place"}

\* C8 as stated: the prefix loop makes at most len(digest) - |L| + 1 probes
\* and the suffix loop stops at a counter of at most (entries of target) + 1.
C8_ProbeBounds ==
    /\ Hashed => prefixProbes <= Len(full_hash) - Abs(prefix_length) + 1
    /\ pc \in {"suffix", "place"} =>
          /\ counter <= Cardinality(TargetNames) + 1
          /\ suffixProbes <= Cardinality(TargetNames) + 1

\* C8 amended: the prefix loop makes at most
\* max(1, len(digest) - |L| + 1) probes; the suffix bound is as stated.
C8_ProbeBoundsShortDigest ==
    /\ Hashed =>
          prefixProbes <= Max(1, Len(full_hash) - Abs(prefix_length) + 1)
    /\ pc \in {"suffix", "place"} =>
          /\ counter <= Cardinality(TargetNames) + 1
          /\ suffixProbes <= Cardinality(TargetNames) + 1

\* a decision that used every prefix length and then two suffix renames
C8_Witness ==
    /\ DecidedB
    /\ prefixProbes >= 2
    /\ prefixProbes = Len(full_hash) - Abs(prefix_length) + 1
    /\ counter = 3

\* C9: with another writer, a placement can write onto an entry that exists
\* although the decision found the path unused; nothing but that race makes
\* a placement overwrite: there are never more overwrites than entries the
\* other writer created after a check.
C9_OverwriteOnlyByRace == overwrites <= extWrites

\* a placement has overwritten the entry another writer created
C9_Witness == overwrites > 0 /\ extWrites > 0 /\ processed_files > 0

\* upper bounds used by the ranking function: entries of one directory, and
\* the tracked prefix length
MaxEntries == MaxInitTarget + MaxFailures + 6
MaxLen == Max(MaxPrefix, Max(DigestLen, 2))

\* steps left, at most, in the naming and placement of the current file
FileRank ==
    CASE pc = "hash"   -> 6 + MaxEntries + MaxLen
      [] pc = "probe"  -> 5 + MaxEntries + (MaxLen - prefix_len)
      [] pc = "suffix" -> 2 + (MaxEntries + 2 - counter)
      [] pc = "place"  -> 1
      [] OTHER         -> 0

\* a ranking function of the run: directories left to list (root stands for
\* itself and its subdirectories), entries left in the snapshot, steps left
\* for the current file
Rank ==
    LET perEntry == 7 + MaxEntries + MaxLen
        perDir == perEntry * (MaxEntries + 1) + 1
        dirs == IF "root" \in todo THEN Cardinality(Subdirs) + 1
                ELSE Cardinality(todo)
    IN  CASE pc = "start" -> perDir * (Cardinality(Subdirs) + 2)
          [] pc \in {"done", "exit"} -> 0
          [] OTHER -> perDir * dirs + perEntry * Cardinality(listing)
                      + FileRank + 1

\* C10: a per-file failure is caught: it moves on to the next entry and
\* leaves the rest of the traversal and the count alone; the final report
\* is reached only with the traversal exhausted, and it is always reached:
\* every step lowers the rank, which is never negative, and the run can
\* always take a step until the report (or the exit for a missing source
\* or a missing -E).
C10_FailureIsPerFile ==
    /\ [][failures' > failures =>
            /\ pc' = "scan"
            /\ listing' = listing
            /\ todo' = todo
            /\ processed_files' = processed_files]_vars
    /\ [](pc = "done" => listing = {} /\ todo = {})
    /\ [](pc = "exit" => ~source_exists \/ ~extension_given)
    /\ [][Rank' < Rank]_vars
    /\ [](Rank >= 0 /\ FileRank >= 0)
    /\ [](pc \notin {"done", "exit"} => ENABLED Next)

\* after the failure of one file, and the placement of another, a further
\* file has been named and is about to be placed
C10_Witness ==
    /\ Decided
    /\ failures > 0
    /\ processed_files > 0

----------------------------------------------------------------------------
(* Properties of the run *)

\* this step completed the placement of the current file: dest now holds
\* the content of the source file and no exception was raised
PlacementCompleted ==
    /\ pc = "place"
    /\ pc' = "scan"
    /\ failures' = failures
    /\ dest \in DOMAIN fs'[target]
    /\ fs'[target][dest] = fs[cur][file]

\* the entries of a target directory outside the source tree that hold the
\* content of a source file: the files this run placed there
PlacedInExt == {n \in DOMAIN fs["ext"] : fs["ext"][n] \in Contents}

\* C11: the processed-files counter starts at 0, increases by exactly one
\* in a step that completes a placement and is unchanged by every other
\* step (a failing file included); with the target outside the source tree
\* it equals, at every point and at the final report, the number of files
\* the run has placed in the target directory.
C11_CountsPlacements ==
    /\ [][processed_files' =
            IF PlacementCompleted THEN processed_files + 1
            ELSE processed_files]_vars
    /\ [](pc = "start" => processed_files = 0)
    /\ [](target = "ext" => processed_files = Cardinality(PlacedInExt))

\* the report of a run that placed two files and failed on another
C11_Witness ==
    /\ pc = "done"
    /\ target = "ext"
    /\ processed_files >= 2
    /\ failures > 0

\* the algorithm names the help text of -A and the docstring list
Recognized == {CRC32, MD2, MD4, MD5, SHA256, SHA384, SHA512}

\* C12: compute_file_hash raises the unsupported-algorithm error exactly
\* for the names that are not, ignoring case, one of CRC32, MD2, MD4, MD5,
\* SHA256, SHA384, SHA512.
C12_UnsupportedIffUnrecognized ==
    /\ failures > 0 => Upper(algorithm) \notin Recognized
    /\ pc = "probe" => Upper(algorithm) \in Recognized

\* the current file is being fingerprinted or named
Naming == pc \in {"hash", "probe", "suffix"}

\* C13: a step of the fingerprinter or of the naming decision (a failing
\* one included) leaves the entries of the target directory and the source
\* file as they are; the file system changes only in a placement step.
C13_NamingReadsOnly ==
    /\ [][Naming =>
            /\ DOMAIN fs'[target] = DOMAIN fs[target]
            /\ fs'[cur][file] = fs[cur][file]]_vars
    /\ [][fs' # fs => pc = "place"]_vars

\* a destination returned after the digest was computed, the prefix loop
\* probed every length and the suffix loop probed twice
C13_Witness ==
    /\ DecidedB
    /\ prefixProbes >= 2
    /\ suffixProbes >= 2
    /\ is_file(cur, file)

\* the command line lacks the required -E, or the source is no directory
ConfigError == ~extension_given \/ ~source_exists

\* C14: a run with a configuration error (no -E, or no source directory)
\* ends before the loop: no file is ever listed, fingerprinted, named or
\* placed, nothing fails per file, and the file system is left as it was;
\* the run exits early for no other reason.
C14_ConfigErrorIsFatal ==
    /\ [](ConfigError =>
            /\ pc \in {"start", "exit"}
            /\ listing = {} /\ file = <<>> /\ dest = <<>>
            /\ processed_files = 0 /\ failures = 0 /\ placements = {})
    /\ [][ConfigError => fs' = fs /\ pc' = "exit"]_vars
    /\ [](pc = "exit" => ConfigError)

\* a run without -E has exited with matching files left in the source tree
C14_Witness ==
    /\ pc = "exit"
    /\ ~extension_given
    /\ source_exists
    /\ \E n \in DOMAIN fs["root"] : Suffix(n) = <<".", "t">>

\* C15: the sign of -P is ignored: the destination a Mode B decision
\* returns for L, a digest, a name and a state of the target directory is
\* the destination lines 112-128 yield for L and also the one they yield
\* for -L on the same digest, name and target directory.
C15_SignIgnored ==
    DecidedB =>
        /\ dest = name_destination(prefix_length, full_hash, file,
                                   TargetNames)
        /\ dest = name_destination(-prefix_length, full_hash, file,
                                   TargetNames)

\* a decision for a negative L that had to lengthen the prefix
C15_Witness ==
    /\ DecidedB
    /\ prefix_length < 0
    /\ prefixProbes >= 2
    /\ Len(full_hash) >= 2

\* the value of a decimal digit
DigitValue(ch) == CHOOSE i \in 0..9 : Digits[i + 1] = ch

\* s is the decimal rendering of a natural number
IsDecimal(s) ==
    /\ Len(s) >= 1
    /\ \A i \in 1..Len(s) : \E j \in 1..10 : Digits[j] = s[i]
    /\ Len(s) > 1 => s[1] # "0"

\* the number rendered by s is at most the number rendered by t
DecimalLeq(s, t) ==
    \/ Len(s) < Len(t)
    \/ s = t
    \/ /\ Len(s) = Len(t)
       /\ \E i \in 1..Len(s) :
            /\ \A j \in 1..(i - 1) : s[j] = t[j]
            /\ DigitValue(s[i]) < DigitValue(t[i])

\* 2^32 - 1 in decimal
MaxUnsigned32 == <<"4", "2", "9", "4", "9", "6", "7", "2", "9", "5">>

\* the CRC-32 of the contents, in decimal, as zlib computes them
CrcDecimal(c) ==
    CASE c = "c1" -> <<"0">>
      [] c = "c2" -> <<"1", "2">>
      [] c = "c3" -> <<"0">>
      [] c = "c4" -> <<"3", "9", "0", "4", "3", "5", "5", "9", "0", "7">>
      [] c = "c5" -> <<"3", "0", "9", "0", "0", "4", "4", "5", "7", "9">>
      [] c = "c6" -> <<"4", "2", "9", "4", "9", "6", "7", "2", "9", "5">>
      [] c = "c7" -> <<"2", "1", "4", "7", "4", "8", "3", "6", "4", "8">>
      [] c = "c8" -> <<"5", "0", "3", "5", "7", "6", "4", "4", "6">>
      [] c = "c9" -> <<"6", "5", "5", "3", "6">>

\* the file that was fingerprinted
Fingerprinted == fs[cur][file]

\* C16: the CRC32 digest is the decimal rendering of a value in
\* [0, 2^32 - 1], the CRC-32 of the file's blocks folded from 0; the digest
\* of an empty file is the string 0.
C16_CrcDecimalUnsigned ==
    (pc = "probe" /\ Upper(algorithm) = CRC32) =>
        /\ IsDecimal(full_hash)
        /\ DecimalLeq(full_hash, MaxUnsigned32)
        /\ full_hash = CrcDecimal(Fingerprinted)
        /\ Blocks(Fingerprinted) = <<>> => full_hash = <<"0">>

\* the digest of a file of two blocks whose CRC-32 is above 2^31
C16_Witness ==
    /\ pc = "probe"
    /\ Upper(algorithm) = CRC32
    /\ Len(Blocks(Fingerprinted)) = 2
    /\ Len(full_hash) = 10
    /\ DecimalLeq(<<"2", "1", "4", "7", "4", "8", "3", "6", "4", "8">>,
                  full_hash)

\* the configured extension string, made to start with '.'
Normalized == IF Take(extension, 1) = <<".">> THEN extension
              ELSE <<".">> \o extension

\* the name n is a non-empty stem followed by e
EndsWith(n, e) ==
    /\ Len(n) > Len(e)
    /\ SubSeq(n, Len(n) - Len(e) + 1, Len(n)) = e

\* n has the configured extension, under the configured case rule
HasConfiguredExtension(n) ==
    IF case_sensitive THEN EndsWith(n, Normalized)
    ELSE EndsWith(Lower(n), Lower(Normalized))

\* the entries of the listed directory the loop has passed over
Skipped == Entries(cur) \ (listing \cup {file})

\* C17: an entry is selected exactly when it is a regular file whose
\* extension is the configured one (made to start with '.', compared
\* ignoring case unless -C is given), for every configured extension,
\* those with more than one dot such as .t.g included.
C17_SelectedIffExtension ==
    /\ pc = "suffix" => is_file(cur, file) /\ HasConfiguredExtension(file)
    /\ \A n \in Skipped : ~(is_file(cur, n) /\ HasConfiguredExtension(n))

\* C18: a file this run placed in the target directory is never selected
\* again: no file being fingerprinted, named or placed is an entry of the
\* target directory that one of the run's own placements created.
C18_PlacedNeverReselected ==
    (pc \in {"hash", "probe", "suffix", "place"} /\ cur = target) =>
        \A p \in placements : p[2] # file

\* C19: in Mode A (L = 0) the algorithm name is never read: no step that
\* reads it (the digest, its unsupported-algorithm error, a failing read)
\* is ever enabled, no digest exists, every failure is one of the naming or
\* the placement, and the destination is the one get_unique_path yields
\* from the file name and the target's entries alone; so destinations and
\* count are the same for a recognized and an unrecognized name.
C19_ModeAIgnoresAlgorithm ==
    /\ [](prefix_length = 0 =>
            /\ pc # "hash"
            /\ full_hash = <<>>
            /\ ~ENABLED (Hash \/ Unsupported \/ HashFail))
    /\ [][prefix_length = 0 /\ failures' > failures =>
            pc \in {"suffix", "place"}]_vars
    /\ [](DecidedA => dest = get_unique_path(TargetNames, file))

\* the report of a Mode A run with an unrecognized algorithm name that
\* placed two files and failed on none
C19_Witness ==
    /\ pc = "done"
    /\ prefix_length = 0
    /\ ~Supported(algorithm)
    /\ processed_files >= 2
    /\ failures = 0

====
